---- MODULE Spec2Model ----
(***************************************************************************)
(* Model of pterasoftware/convergence.py: the two convergence sweeps       *)
(* analyze_steady_convergence and analyze_unsteady_convergence.            *)
(*                                                                         *)
(* One behaviour is one call of one of the two functions.  The arguments   *)
(* of the call are fixed by Init; the external solver is the environment:  *)
(* each run reports, per tracked airplane, a resultant force magnitude and *)
(* a resultant moment magnitude, or fails.                                 *)
(***************************************************************************)
EXTENDS Integers, Sequences, FiniteSets, TLC

VARIABLES
    fn,                          \* which entry point was called
    prescribed_wake, free_wake,  \* arguments of analyze_unsteady_convergence
    is_static,                   \* ref_movement.get_max_period() == 0
    num_cycles_bounds, num_chords_bounds,
    panel_aspect_ratio_bounds, num_chordwise_panels_bounds,
    convergence_criteria,
    num_airplanes,               \* len(ref_airplane_movements)
    ref_problem,                 \* the caller's problem object
    pc,                          \* "call", "loop", "returned", "raised"
    wake_list, wake_lengths_list,
    panel_aspect_ratios_list, num_chordwise_panels_list,
    wake_id, length_id, ar_id, chord_id,   \* the next combination to visit
    iteration,
    force_coefficients, moment_coefficients, iter_times,
    solved,                      \* history: the combinations handed to the solver, in order
    verdict,                     \* the locals of the last evaluated combination
    result,                      \* the returned list, << >> before the return
    exc,                         \* the exception that left the call, "" if none
    log,                         \* the diagnostics emitted so far (a set of tags)
    this_problem                 \* the problem built in the last loop pass, << >> before

args == <<fn, prescribed_wake, free_wake, is_static, num_cycles_bounds,
          num_chords_bounds, panel_aspect_ratio_bounds,
          num_chordwise_panels_bounds, convergence_criteria, num_airplanes,
          ref_problem>>
lists == <<wake_list, wake_lengths_list, panel_aspect_ratios_list,
           num_chordwise_panels_list>>
cursor == <<wake_id, length_id, ar_id, chord_id>>
tables == <<force_coefficients, moment_coefficients, iter_times>>
vars == <<args, pc, lists, cursor, iteration, tables, solved, verdict,
          result, exc, log, this_problem>>

(***************************************************************************)
(* Bounds of the model.                                                    *)
(***************************************************************************)
\* The solver's reports vary freely over the first MaxVariedRuns runs of a
\* sweep; every later run repeats the report of the run before it.
MaxVariedRuns == 3
\* Sweeps that track more than one airplane have at most this many
\* combinations.
MaxMultiBodyCombinations == 2

\* The numbers of tracked airplanes, len(ref_airplane_movements).
NumAirplanes == {1, 2}
\* What one airplane can report in one run: <<force magnitude, moment magnitude>>.
BodyReports == {<<100, 100>>, <<105, 100>>, <<100, 0>>, <<0, 100>>}
IterTimes == {1}
WakeLengthCycles == {<<1, 2>>}
WakeLengthChords == {<<3, 3>>}
AspectRatioBounds == {<<3, 2>>, <<2, 1>>, <<2, 2>>, <<1, 1>>, <<1, 2>>, <<1, 0>>}
ChordwiseBounds == {<<3, 3>>, <<3, 5>>, <<4, 3>>}
SteadyChordwiseBounds == ChordwiseBounds \cup {<<3, 12>>}
SteadyAspectRatioBounds == AspectRatioBounds \cup {<<4, 1>>}
Criteria == {5}

(***************************************************************************)
(* Python values.                                                          *)
(***************************************************************************)
\* None, and a value that is not None, as sequences of length 0 and 1.
None == << >>
Val(v) == <<v>>

\* list(range(start, stop)) and list(range(start, stop, -1)).
RangeUp(start, stop) ==
    IF stop <= start THEN << >> ELSE [i \in 1..(stop - start) |-> start + i - 1]
RangeDown(start, stop) ==
    IF stop >= start THEN << >> ELSE [i \in 1..(start - stop) |-> start - i + 1]

\* list[i] for a Python index i >= -len(list): a negative index counts from the end.
PyIndex(list, i) == IF i < 0 THEN list[Len(list) + i + 1] ELSE list[i + 1]

Product(w, l, a, c) == Len(w) * Len(l) * Len(a) * Len(c)

(***************************************************************************)
(* Floating point values of the percent changes: a finite ratio n/d, inf   *)
(* (1/0) or nan (0/0).  Magnitudes are vector norms, so never negative.    *)
(***************************************************************************)
Fin(n, d) == [k |-> "fin", n |-> n, d |-> d]
Inf == [k |-> "inf", n |-> 1, d |-> 0]
NaN == [k |-> "nan", n |-> 0, d |-> 0]

Abs(x) == IF x < 0 THEN -x ELSE x

\* a < b on floats: false whenever a nan is involved.
Lt(a, b) ==
    CASE a.k = "nan" \/ b.k = "nan" -> FALSE
      [] a.k = "inf" -> FALSE
      [] b.k = "inf" -> TRUE
      [] OTHER -> a.n * b.d < b.n * a.d

\* Python's max(a, b): the first argument unless the second is greater.
PyMax2(a, b) == IF Lt(a, b) THEN b ELSE a

RECURSIVE PyMaxFrom(_, _, _)
PyMaxFrom(s, i, best) ==
    IF i > Len(s) THEN best ELSE PyMaxFrom(s, i + 1, PyMax2(best, s[i]))
\* Python's max(iterable) over a non-empty array.
PyMax(s) == PyMaxFrom(s, 2, s[1])

\* Variant: the new value is not subtracted from the last one.
PercentChangeNoDifference(these, last) ==
    IF last = 0
    THEN (IF these = 0 THEN NaN ELSE Inf)
    ELSE Fin(100 * Abs(these), last)

\* 100 * np.abs((these - last) / last) for one airplane.
PercentChange(these, last) ==
    IF last = 0
    THEN (IF these = 0 THEN NaN ELSE Inf)
    ELSE Fin(100 * Abs(these - last), last)

\* max(max_force_pc, max_moment_pc) against the row `last` of each table.
MaxPc(these_force, last_force, these_moment, last_moment) ==
    LET n == Len(these_force)
        max_force_pc ==
            PyMax([i \in 1..n |-> PercentChange(these_force[i], last_force[i])])
        max_moment_pc ==
            PyMax([i \in 1..n |-> PercentChange(these_moment[i], last_moment[i])])
    IN  PyMax2(max_force_pc, max_moment_pc)

(***************************************************************************)
(* The four axis sequences, as the statements before the loops build them. *)
(***************************************************************************)
\* Variant: the free wake is listed before the prescribed wake.
WakeListFreeFirst(prescribed, free) ==
    (IF free THEN <<FALSE>> ELSE << >>) \o (IF prescribed THEN <<TRUE>> ELSE << >>)

\* Variant: the free wake is used when no wake type is requested.
WakeListDefault(prescribed, free) ==
    (IF prescribed THEN <<TRUE>> ELSE << >>)
        \o (IF free \/ ~prescribed THEN <<FALSE>> ELSE << >>)

WakeList(prescribed, free) ==
    (IF prescribed THEN <<TRUE>> ELSE << >>) \o (IF free THEN <<FALSE>> ELSE << >>)

WakeLengthsList(static, chords, cycles) ==
    IF static THEN RangeUp(chords[1], chords[2] + 1)
    ELSE RangeUp(cycles[1], cycles[2] + 1)

\* Variant: the fine bound is left out of the range.
PanelAspectRatiosListExclusive(bounds) == RangeDown(bounds[1], bounds[2])

PanelAspectRatiosList(bounds) == RangeDown(bounds[1], bounds[2] - 1)

\* Variant: the fine bound is left out of the range.
NumChordwisePanelsListExclusive(bounds) == RangeUp(bounds[1], bounds[2])

NumChordwisePanelsList(bounds) == RangeUp(bounds[1], bounds[2] + 1)

(***************************************************************************)
(* The reference problem of the caller.  A field the loop body only copies *)
(* holds an opaque value, different for every field of every object; y_le  *)
(* and chord of a wing cross section are numbers, because the loop body    *)
(* computes with them.  Every object carries its identity in `id`.         *)
(***************************************************************************)
Tag(field, path) == <<field, path>>
RefId(kind, path) == <<"ref", kind, path>>

\* Airplane 1 has one wing, every other airplane has two.
NumWings(b) == IF b = 1 THEN 1 ELSE 2

\* <<y_le, chord>> of the cross sections of wing w of airplane b, root first.
SectionGeometry(b, w) ==
    IF b = 1 THEN <<<<0, 2>>, <<3, 2>>, <<5, 1>>>>
    ELSE IF w = 1 THEN <<<<0, 1>>, <<2, 1>>>>
    ELSE <<<<0, 3>>, <<4, 1>>>>

RefAirfoil(path) ==
    [id |-> RefId("Airfoil", path),
     name |-> Tag("name", path),
     coordinates |-> [id |-> RefId("coordinates", path)],
     repanel |-> Tag("repanel", path),
     n_points_per_side |-> Tag("n_points_per_side", path)]

RefBaseWingCrossSection(b, w, s) ==
    LET path == <<b, w, s>>
    IN  [id |-> RefId("WingCrossSection", path),
         x_le |-> Tag("x_le", path),
         y_le |-> SectionGeometry(b, w)[s][1],
         z_le |-> Tag("z_le", path),
         chord |-> SectionGeometry(b, w)[s][2],
         twist |-> Tag("twist", path),
         control_surface_type |-> Tag("control_surface_type", path),
         control_surface_hinge_point |-> Tag("control_surface_hinge_point", path),
         control_surface_deflection |-> Tag("control_surface_deflection", path),
         spanwise_spacing |-> Tag("spanwise_spacing", path),
         num_spanwise_panels |-> IF s < Len(SectionGeometry(b, w)) THEN 8 ELSE 0,
         airfoil |-> RefAirfoil(path)]

RefWingCrossSectionMovement(b, w, s) ==
    LET path == <<b, w, s>>
    IN  [id |-> RefId("WingCrossSectionMovement", path),
         sweeping_amplitude |-> Tag("sweeping_amplitude", path),
         sweeping_period |-> Tag("sweeping_period", path),
         sweeping_spacing |-> Tag("sweeping_spacing", path),
         custom_sweep_function |-> Tag("custom_sweep_function", path),
         pitching_amplitude |-> Tag("pitching_amplitude", path),
         pitching_period |-> Tag("pitching_period", path),
         pitching_spacing |-> Tag("pitching_spacing", path),
         custom_pitch_function |-> Tag("custom_pitch_function", path),
         heaving_amplitude |-> Tag("heaving_amplitude", path),
         heaving_period |-> Tag("heaving_period", path),
         heaving_spacing |-> Tag("heaving_spacing", path),
         custom_heave_function |-> Tag("custom_heave_function", path),
         base_wing_cross_section |-> RefBaseWingCrossSection(b, w, s)]

RefBaseWing(b, w) ==
    LET path == <<b, w>>
    IN  [id |-> RefId("Wing", path),
         name |-> Tag("name", path),
         x_le |-> Tag("x_le", path),
         y_le |-> Tag("y_le", path),
         z_le |-> Tag("z_le", path),
         symmetric |-> Tag("symmetric", path),
         chordwise_spacing |-> Tag("chordwise_spacing", path),
         num_chordwise_panels |-> 6,
         wing_cross_sections |->
             [s \in 1..Len(SectionGeometry(b, w)) |-> RefBaseWingCrossSection(b, w, s)]]

RefWingMovement(b, w) ==
    LET path == <<b, w>>
    IN  [id |-> RefId("WingMovement", path),
         x_le_amplitude |-> Tag("x_le_amplitude", path),
         x_le_period |-> Tag("x_le_period", path),
         x_le_spacing |-> Tag("x_le_spacing", path),
         y_le_amplitude |-> Tag("y_le_amplitude", path),
         y_le_period |-> Tag("y_le_period", path),
         y_le_spacing |-> Tag("y_le_spacing", path),
         z_le_amplitude |-> Tag("z_le_amplitude", path),
         z_le_period |-> Tag("z_le_period", path),
         z_le_spacing |-> Tag("z_le_spacing", path),
         base_wing |-> RefBaseWing(b, w),
         wing_cross_section_movements |->
             [s \in 1..Len(SectionGeometry(b, w)) |-> RefWingCrossSectionMovement(b, w, s)]]

RefBaseAirplane(b) ==
    LET path == <<b>>
    IN  [id |-> RefId("Airplane", path),
         name |-> Tag("name", path),
         x_ref |-> Tag("x_ref", path),
         y_ref |-> Tag("y_ref", path),
         z_ref |-> Tag("z_ref", path),
         weight |-> Tag("weight", path),
         s_ref |-> Tag("s_ref", path),
         c_ref |-> Tag("c_ref", path),
         b_ref |-> Tag("b_ref", path),
         wings |-> [w \in 1..NumWings(b) |-> RefBaseWing(b, w)]]

RefAirplaneMovement(b) ==
    LET path == <<b>>
    IN  [id |-> RefId("AirplaneMovement", path),
         x_ref_amplitude |-> Tag("x_ref_amplitude", path),
         x_ref_period |-> Tag("x_ref_period", path),
         x_ref_spacing |-> Tag("x_ref_spacing", path),
         y_ref_amplitude |-> Tag("y_ref_amplitude", path),
         y_ref_period |-> Tag("y_ref_period", path),
         y_ref_spacing |-> Tag("y_ref_spacing", path),
         z_ref_amplitude |-> Tag("z_ref_amplitude", path),
         z_ref_period |-> Tag("z_ref_period", path),
         z_ref_spacing |-> Tag("z_ref_spacing", path),
         base_airplane |-> RefBaseAirplane(b),
         wing_movements |-> [w \in 1..NumWings(b) |-> RefWingMovement(b, w)]]

\* The UnsteadyProblem handed to analyze_unsteady_convergence.
RefUnsteadyProblem(n) ==
    [id |-> RefId("UnsteadyProblem", << >>),
     movement |->
         [id |-> RefId("Movement", << >>),
          airplane_movements |-> [b \in 1..n |-> RefAirplaneMovement(b)],
          operating_point_movement |-> [id |-> RefId("OperatingPointMovement", << >>)]]]

\* The SteadyProblem handed to analyze_steady_convergence.
RefSteadyProblem(n) ==
    [id |-> RefId("SteadyProblem", << >>),
     airplanes |-> [b \in 1..n |-> RefBaseAirplane(b)],
     operating_point |-> [id |-> RefId("OperatingPoint", << >>)]]

(***************************************************************************)
(* The state after the call is made and before its first statement.        *)
(***************************************************************************)
Init ==
    /\ fn \in {"steady", "unsteady"}
    /\ IF fn = "steady"
       THEN /\ prescribed_wake = TRUE
            /\ free_wake = TRUE
            /\ is_static = TRUE
            /\ num_cycles_bounds = <<1, 1>>
            /\ num_chords_bounds = <<3, 3>>
            /\ panel_aspect_ratio_bounds \in SteadyAspectRatioBounds
            /\ num_chordwise_panels_bounds \in SteadyChordwiseBounds
       ELSE /\ prescribed_wake \in BOOLEAN
            /\ free_wake \in BOOLEAN
            /\ is_static \in BOOLEAN
            /\ num_cycles_bounds \in WakeLengthCycles
            /\ num_chords_bounds \in WakeLengthChords
            /\ panel_aspect_ratio_bounds \in AspectRatioBounds
            /\ num_chordwise_panels_bounds \in ChordwiseBounds
    /\ convergence_criteria \in Criteria
    /\ num_airplanes \in NumAirplanes
    /\ ref_problem = IF fn = "steady" THEN RefSteadyProblem(num_airplanes)
                     ELSE RefUnsteadyProblem(num_airplanes)
    /\ (fn = "unsteady" /\ num_airplanes > 1) =>
           Product(WakeList(prescribed_wake, free_wake),
                   WakeLengthsList(is_static, num_chords_bounds, num_cycles_bounds),
                   PanelAspectRatiosList(panel_aspect_ratio_bounds),
                   NumChordwisePanelsList(num_chordwise_panels_bounds))
               <= MaxMultiBodyCombinations
    /\ pc = "call"
    /\ wake_list = << >>
    /\ wake_lengths_list = << >>
    /\ panel_aspect_ratios_list = << >>
    /\ num_chordwise_panels_list = << >>
    /\ wake_id = 0
    /\ length_id = 0
    /\ ar_id = 0
    /\ chord_id = 0
    /\ iteration = 0
    /\ force_coefficients = << >>
    /\ moment_coefficients = << >>
    /\ iter_times = << >>
    /\ solved = << >>
    /\ verdict = << >>
    /\ result = << >>
    /\ exc = ""
    /\ log = {}
    /\ this_problem = None

(***************************************************************************)
(* analyze_steady_convergence.  The bounds are tuples, and the first       *)
(* argument check calls one: num_chordwise_panels_bounds(0).               *)
(***************************************************************************)
SteadyCheckArguments ==
    /\ pc = "call"
    /\ fn = "steady"
    /\ pc' = "raised"
    /\ exc' = "TypeError"
    /\ log' = log \cup {"Beginning convergence analysis."}
    /\ UNCHANGED <<args, lists, cursor, iteration, tables, solved, verdict, result,
                   this_problem>>

(***************************************************************************)
(* analyze_unsteady_convergence: the statements before the loops.          *)
(***************************************************************************)
\* The index tuples of an array of shape (len(w), len(l), len(a), len(c)).
Indices(w, l, a, c) ==
    (0..(Len(w) - 1)) \X (0..(Len(l) - 1)) \X (0..(Len(a) - 1)) \X (0..(Len(c) - 1))

\* np.zeros over the index tuples, one row of n entries per tuple.
Zeros(idx, n) == [i \in idx |-> [b \in 1..n |-> 0]]

\* The four nested for loops visit nothing when one of the lists is empty.
FirstCursor(w, l, a, c) ==
    IF Product(w, l, a, c) = 0 THEN <<Len(w), 0, 0, 0>> ELSE <<0, 0, 0, 0>>

CriticalNoWakeMessage ==
    "CRITICAL: Your solver must have at least one type of wake equal to True."

UnsteadySetup ==
    /\ pc = "call"
    /\ fn = "unsteady"
    /\ LET w == WakeList(prescribed_wake, free_wake)
           l == WakeLengthsList(is_static, num_chords_bounds, num_cycles_bounds)
           a == PanelAspectRatiosList(panel_aspect_ratio_bounds)
           c == NumChordwisePanelsList(num_chordwise_panels_bounds)
       IN  /\ wake_list' = w
           /\ wake_lengths_list' = l
           /\ panel_aspect_ratios_list' = a
           /\ num_chordwise_panels_list' = c
           /\ force_coefficients' = Zeros(Indices(w, l, a, c), num_airplanes)
           /\ moment_coefficients' = Zeros(Indices(w, l, a, c), num_airplanes)
           /\ iter_times' = [i \in Indices(w, l, a, c) |-> 0]
           /\ wake_id' = FirstCursor(w, l, a, c)[1]
           /\ length_id' = FirstCursor(w, l, a, c)[2]
           /\ ar_id' = FirstCursor(w, l, a, c)[3]
           /\ chord_id' = FirstCursor(w, l, a, c)[4]
    /\ log' = log \cup {"Beginning convergence analysis."} \cup
              (IF ~(free_wake \/ prescribed_wake)
               THEN {CriticalNoWakeMessage}
               ELSE {})
    /\ iteration' = 0
    /\ pc' = "loop"
    /\ UNCHANGED <<args, solved, verdict, result, exc, this_problem>>

(***************************************************************************)
(* analyze_unsteady_convergence: one pass of the innermost loop body.      *)
(***************************************************************************)
\* All four for loops have run out.
Exhausted == wake_id >= Len(wake_list)

\* Variant: the end of the innermost loop leaves all four loops.
NextCursorBreak(w, l, a, c) ==
    IF c + 1 < Len(num_chordwise_panels_list) THEN <<w, l, a, c + 1>>
    ELSE <<Len(wake_list), 0, 0, 0>>

\* Variant: the wake-length loop nested inside the aspect-ratio loop.
NextCursorSwapped(w, l, a, c) ==
    IF c + 1 < Len(num_chordwise_panels_list) THEN <<w, l, a, c + 1>>
    ELSE IF l + 1 < Len(wake_lengths_list) THEN <<w, l + 1, a, 0>>
    ELSE IF a + 1 < Len(panel_aspect_ratios_list) THEN <<w, l, a + 1, 0>>
    ELSE <<w + 1, 0, 0, 0>>

\* Variant: after the last combination the loops start over.
NextCursorWraps(w, l, a, c) ==
    IF c + 1 < Len(num_chordwise_panels_list) THEN <<w, l, a, c + 1>>
    ELSE IF a + 1 < Len(panel_aspect_ratios_list) THEN <<w, l, a + 1, 0>>
    ELSE IF l + 1 < Len(wake_lengths_list) THEN <<w, l + 1, 0, 0>>
    ELSE IF w + 1 < Len(wake_list) THEN <<w + 1, 0, 0, 0>>
    ELSE <<0, 0, 0, 0>>

\* The combination the enumerate() loops visit after <<w, l, a, c>>.
NextCursor(w, l, a, c) ==
    IF c + 1 < Len(num_chordwise_panels_list) THEN <<w, l, a, c + 1>>
    ELSE IF a + 1 < Len(panel_aspect_ratios_list) THEN <<w, l, a + 1, 0>>
    ELSE IF l + 1 < Len(wake_lengths_list) THEN <<w, l + 1, 0, 0>>
    ELSE <<w + 1, 0, 0, 0>>

\* The values of the loop variables at the cursor.
wake == wake_list[wake_id + 1]
wake_length == wake_lengths_list[length_id + 1]
panel_aspect_ratio == panel_aspect_ratios_list[ar_id + 1]
num_chordwise_panels == num_chordwise_panels_list[chord_id + 1]

\* The variant builder divides by section_standard_mean_chord * panel_aspect_ratio
\* for every cross section of a wing but the last.
VariantFails(ar) == ar = 0

\* What the solver can report in the run numbered `it` (counted from 1).
SolverReports(it) ==
    IF it <= MaxVariedRuns
    THEN [1..num_airplanes -> BodyReports]
    ELSE {[b \in 1..num_airplanes |->
             <<force_coefficients[solved[Len(solved)]][b],
               moment_coefficients[solved[Len(solved)]][b]>>]}

\* Variant: without a predecessor the change is 0.
AxisPcZero(id, prev, these_force, these_moment, force, moment) ==
    IF id > 0
    THEN MaxPc(these_force, force[prev], these_moment, moment[prev])
    ELSE Fin(0, 1)

\* max_<axis>_pc: np.inf at index 0, else the change against the entry one
\* index coarser along the axis, `prev`.
AxisPc(id, prev, these_force, these_moment, force, moment) ==
    IF id > 0
    THEN MaxPc(these_force, force[prev], these_moment, moment[prev])
    ELSE Inf

Converged(max_pc, criteria) == Lt(max_pc, Fin(criteria, 1))

\* Variant: the prescribed wake is the saturated one.
WakeSaturatedPrescribed(wk) == wk

WakeSaturated(wk) == ~wk
\* Variant: the aspect ratio saturates only below 1.
ArSaturatedBelow(ar) == ar < 1

ArSaturated(ar) == ar = 1

\* Variant: every axis passes at every combination.
PassedAlways(converged, single, saturated) == TRUE

\* Variant: no exemption for a single candidate.
PassedNoSingle(converged, single, saturated) == converged \/ saturated

\* Variant: no saturation exemption.
PassedNoSaturation(converged, single, saturated) == converged \/ single

Passed(converged, single, saturated) == converged \/ single \/ saturated

\* Variant: the chordwise verdict is left out of the exit test.
AllPassedNoChord(wake_passed, length_passed, ar_passed, chord_passed) ==
    wake_passed /\ length_passed /\ ar_passed

AllPassed(wake_passed, length_passed, ar_passed, chord_passed) ==
    wake_passed /\ length_passed /\ ar_passed /\ chord_passed

\* Variant: the exit index itself is reported.
ConvergedIdCurrent(id, single, saturated) == id

ConvergedId(id, single, saturated) == IF single \/ saturated THEN id ELSE id - 1

\* The locals of the loop body from max_wake_pc to chord_passed.
Evaluate(w, l, a, c, these_force, these_moment, force, moment) ==
    LET max_wake_pc == AxisPc(w, <<w - 1, l, a, c>>, these_force, these_moment, force, moment)
        max_length_pc == AxisPc(l, <<w, l - 1, a, c>>, these_force, these_moment, force, moment)
        max_ar_pc == AxisPc(a, <<w, l, a - 1, c>>, these_force, these_moment, force, moment)
        max_chord_pc == AxisPc(c, <<w, l, a, c - 1>>, these_force, these_moment, force, moment)
        wake_saturated == WakeSaturated(wake_list[w + 1])
        ar_saturated == ArSaturated(panel_aspect_ratios_list[a + 1])
        single_wake == Len(wake_list) = 1
        single_length == Len(wake_lengths_list) = 1
        single_ar == Len(panel_aspect_ratios_list) = 1
        single_chord == Len(num_chordwise_panels_list) = 1
        wake_converged == Converged(max_wake_pc, convergence_criteria)
        length_converged == Converged(max_length_pc, convergence_criteria)
        ar_converged == Converged(max_ar_pc, convergence_criteria)
        chord_converged == Converged(max_chord_pc, convergence_criteria)
    IN  [at |-> <<w, l, a, c>>,
         max_wake_pc |-> max_wake_pc, max_length_pc |-> max_length_pc,
         max_ar_pc |-> max_ar_pc, max_chord_pc |-> max_chord_pc,
         wake_saturated |-> wake_saturated, ar_saturated |-> ar_saturated,
         single_wake |-> single_wake, single_length |-> single_length,
         single_ar |-> single_ar, single_chord |-> single_chord,
         wake_converged |-> wake_converged, length_converged |-> length_converged,
         ar_converged |-> ar_converged, chord_converged |-> chord_converged,
         wake_passed |-> Passed(wake_converged, single_wake, wake_saturated),
         length_passed |-> Passed(length_converged, single_length, FALSE),
         ar_passed |-> Passed(ar_converged, single_ar, ar_saturated),
         chord_passed |-> Passed(chord_converged, single_chord, FALSE)]

\* The diagnostics of a converged return.
ConvergedLog(v) ==
    IF v.single_wake \/ v.single_length \/ v.single_ar \/ v.single_chord
    THEN {"The analysis found a semi-converged mesh:"}
         \cup (IF v.single_wake THEN {"WARNING: Wake type convergence not checked."} ELSE {})
         \cup (IF v.single_length THEN {"WARNING: Wake length convergence not checked."} ELSE {})
         \cup (IF v.single_ar THEN {"WARNING: Panel aspect ratio convergence not checked."} ELSE {})
         \cup (IF v.single_chord
               THEN {"WARNING: Number of chordwise panels convergence not checked."} ELSE {})
    ELSE {"The analysis found a converged mesh:"}

\* The list returned from inside the loops.
ConvergedResult(v) ==
    LET converged_wake_id == ConvergedId(v.at[1], v.single_wake, v.wake_saturated)
        converged_length_id == ConvergedId(v.at[2], v.single_length, FALSE)
        converged_ar_id == ConvergedId(v.at[3], v.single_ar, v.ar_saturated)
        converged_chord_id == ConvergedId(v.at[4], v.single_chord, FALSE)
    IN  <<Val(PyIndex(wake_list, converged_wake_id)),
          Val(PyIndex(wake_lengths_list, converged_length_id)),
          Val(PyIndex(panel_aspect_ratios_list, converged_ar_id)),
          Val(PyIndex(num_chordwise_panels_list, converged_chord_id))>>

\* Variant: the result tables are indexed without the chordwise index.
WriteIndexNoChord(w, l, a, c) == <<w, l, a, 0>>

\* Variant: the result tables are indexed without the wake index.
WriteIndexNoWake(w, l, a, c) == <<0, l, a, c>>

\* The index the loop body writes its results at.
WriteIndex(w, l, a, c) == <<w, l, a, c>>

(***************************************************************************)
(* analyze_unsteady_convergence: the variant built in one loop pass.  Each *)
(* constructor call is a record of its keyword arguments under a new       *)
(* identity; an argument that is an object is passed by reference.         *)
(***************************************************************************)
\* The identity of an object constructed in loop pass `it`.
NewId(it, kind, path) == <<"new", it, kind, path>>

\* Fractions as <<numerator, denominator>> with a positive denominator.
RatMul(x, y) == <<x[1] * y[1], x[2] * y[2]>>
RatDiv(x, y) ==
    IF y[1] < 0 THEN <<-(x[1] * y[2]), -(x[2] * y[1])>> ELSE <<x[1] * y[2], x[2] * y[1]>>

\* Variant: a tie is rounded up.
PyRoundHalfUp(x) ==
    LET q == x[1] \div x[2]
        r == x[1] % x[2]
    IN  IF 2 * r < x[2] THEN q ELSE q + 1

\* round(x): the nearest integer, a tie going to the even one.
PyRound(x) ==
    LET q == x[1] \div x[2]
        r == x[1] % x[2]
    IN  IF 2 * r < x[2] THEN q
        ELSE IF 2 * r > x[2] THEN q + 1
        ELSE IF q % 2 = 0 THEN q ELSE q + 1

\* math.ceil of the integer that round returned.
MathCeil(i) == i

\* this_num_spanwise_panels for the cross section movement numbered
\* ref_wing_cross_section_movement_id (from 0) of a wing.
ThisNumSpanwisePanels(ref_wing_cross_section_movements, ref_wing_cross_section_movement_id, chordwise, ar) ==
    IF ref_wing_cross_section_movement_id < Len(ref_wing_cross_section_movements) - 1
    THEN LET ref_base_wing_cross_section ==
                 ref_wing_cross_section_movements[
                     ref_wing_cross_section_movement_id + 1].base_wing_cross_section
             next_ref_base_wing_cross_section ==
                 ref_wing_cross_section_movements[
                     ref_wing_cross_section_movement_id + 2].base_wing_cross_section
             section_length ==
                 next_ref_base_wing_cross_section.y_le - ref_base_wing_cross_section.y_le
             root_chord == ref_base_wing_cross_section.chord
             tip_chord == next_ref_base_wing_cross_section.chord
             section_area == <<section_length * (root_chord + tip_chord), 2>>
             section_standard_mean_chord == RatDiv(section_area, <<section_length, 1>>)
         IN  MathCeil(PyRound(RatDiv(<<section_length * chordwise, 1>>,
                                     RatMul(section_standard_mean_chord, <<ar, 1>>))))
    ELSE 0

ThisBaseWingCrossSection(ref_base_wing_cross_section, this_num_spanwise_panels, it, path) ==
    [id |-> NewId(it, "WingCrossSection", path),
     x_le |-> ref_base_wing_cross_section.x_le,
     y_le |-> ref_base_wing_cross_section.y_le,
     z_le |-> ref_base_wing_cross_section.z_le,
     chord |-> ref_base_wing_cross_section.chord,
     twist |-> ref_base_wing_cross_section.twist,
     control_surface_type |-> ref_base_wing_cross_section.control_surface_type,
     control_surface_hinge_point |->
         ref_base_wing_cross_section.control_surface_hinge_point,
     control_surface_deflection |->
         ref_base_wing_cross_section.control_surface_deflection,
     spanwise_spacing |-> ref_base_wing_cross_section.spanwise_spacing,
     num_spanwise_panels |-> this_num_spanwise_panels,
     airfoil |->
         [id |-> NewId(it, "Airfoil", path),
          name |-> ref_base_wing_cross_section.airfoil.name,
          coordinates |-> ref_base_wing_cross_section.airfoil.coordinates,
          repanel |-> ref_base_wing_cross_section.airfoil.repanel,
          n_points_per_side |-> ref_base_wing_cross_section.airfoil.n_points_per_side]]

ThisWingCrossSectionMovement(ref_wing_cross_section_movement, this_base_wing_cross_section, it, path) ==
    [id |-> NewId(it, "WingCrossSectionMovement", path),
     sweeping_amplitude |-> ref_wing_cross_section_movement.sweeping_amplitude,
     sweeping_period |-> ref_wing_cross_section_movement.sweeping_period,
     sweeping_spacing |-> ref_wing_cross_section_movement.sweeping_spacing,
     custom_sweep_function |-> ref_wing_cross_section_movement.custom_sweep_function,
     pitching_amplitude |-> ref_wing_cross_section_movement.pitching_amplitude,
     pitching_period |-> ref_wing_cross_section_movement.pitching_period,
     pitching_spacing |-> ref_wing_cross_section_movement.pitching_spacing,
     custom_pitch_function |-> ref_wing_cross_section_movement.custom_pitch_function,
     heaving_amplitude |-> ref_wing_cross_section_movement.heaving_amplitude,
     heaving_period |-> ref_wing_cross_section_movement.heaving_period,
     heaving_spacing |-> ref_wing_cross_section_movement.heaving_spacing,
     custom_heave_function |-> ref_wing_cross_section_movement.custom_heave_function,
     base_wing_cross_section |-> this_base_wing_cross_section]

\* these_wing_cross_section_movements of one wing; the base of each member
\* is the member of these_base_wing_cross_sections at the same position.
TheseWingCrossSectionMovements(ref_wing_movement, chordwise, ar, it, path) ==
    LET ref_wing_cross_section_movements ==
            ref_wing_movement.wing_cross_section_movements
    IN  [s \in 1..Len(ref_wing_cross_section_movements) |->
            ThisWingCrossSectionMovement(
                ref_wing_cross_section_movements[s],
                ThisBaseWingCrossSection(
                    ref_wing_cross_section_movements[s].base_wing_cross_section,
                    ThisNumSpanwisePanels(ref_wing_cross_section_movements, s - 1,
                                          chordwise, ar),
                    it, path \o <<s>>),
                it, path \o <<s>>)]

\* Variant: the wing keeps the chordwise panel count of the reference.
ThisBaseWingKeepsPanels(ref_base_wing, these_base_wing_cross_sections, chordwise, it, path) ==
    [id |-> NewId(it, "Wing", path),
     name |-> ref_base_wing.name,
     x_le |-> ref_base_wing.x_le,
     y_le |-> ref_base_wing.y_le,
     z_le |-> ref_base_wing.z_le,
     symmetric |-> ref_base_wing.symmetric,
     chordwise_spacing |-> ref_base_wing.chordwise_spacing,
     num_chordwise_panels |-> ref_base_wing.num_chordwise_panels,
     wing_cross_sections |-> these_base_wing_cross_sections]

ThisBaseWing(ref_base_wing, these_base_wing_cross_sections, chordwise, it, path) ==
    [id |-> NewId(it, "Wing", path),
     name |-> ref_base_wing.name,
     x_le |-> ref_base_wing.x_le,
     y_le |-> ref_base_wing.y_le,
     z_le |-> ref_base_wing.z_le,
     symmetric |-> ref_base_wing.symmetric,
     chordwise_spacing |-> ref_base_wing.chordwise_spacing,
     num_chordwise_panels |-> chordwise,
     wing_cross_sections |-> these_base_wing_cross_sections]

ThisWingMovement(ref_wing_movement, chordwise, ar, it, path) ==
    LET these_wing_cross_section_movements ==
            TheseWingCrossSectionMovements(ref_wing_movement, chordwise, ar, it, path)
        these_base_wing_cross_sections ==
            [s \in 1..Len(these_wing_cross_section_movements) |->
                these_wing_cross_section_movements[s].base_wing_cross_section]
    IN  [id |-> NewId(it, "WingMovement", path),
         x_le_amplitude |-> ref_wing_movement.x_le_amplitude,
         x_le_period |-> ref_wing_movement.x_le_period,
         x_le_spacing |-> ref_wing_movement.x_le_spacing,
         y_le_amplitude |-> ref_wing_movement.y_le_amplitude,
         y_le_period |-> ref_wing_movement.y_le_period,
         y_le_spacing |-> ref_wing_movement.y_le_spacing,
         z_le_amplitude |-> ref_wing_movement.z_le_amplitude,
         z_le_period |-> ref_wing_movement.z_le_period,
         z_le_spacing |-> ref_wing_movement.z_le_spacing,
         base_wing |-> ThisBaseWing(ref_wing_movement.base_wing,
                                    these_base_wing_cross_sections, chordwise, it, path),
         wing_cross_section_movements |-> these_wing_cross_section_movements]

ThisBaseAirplane(ref_base_airplane, these_base_wings, it, path) ==
    [id |-> NewId(it, "Airplane", path),
     name |-> ref_base_airplane.name,
     x_ref |-> ref_base_airplane.x_ref,
     y_ref |-> ref_base_airplane.y_ref,
     z_ref |-> ref_base_airplane.z_ref,
     weight |-> ref_base_airplane.weight,
     s_ref |-> None,
     c_ref |-> None,
     b_ref |-> None,
     wings |-> these_base_wings]

ThisAirplaneMovement(ref_airplane_movement, chordwise, ar, it, path) ==
    LET ref_wing_movements == ref_airplane_movement.wing_movements
        these_wing_movements ==
            [w \in 1..Len(ref_wing_movements) |->
                ThisWingMovement(ref_wing_movements[w], chordwise, ar, it, path \o <<w>>)]
        these_base_wings ==
            [w \in 1..Len(these_wing_movements) |-> these_wing_movements[w].base_wing]
    IN  [id |-> NewId(it, "AirplaneMovement", path),
         x_ref_amplitude |-> ref_airplane_movement.x_ref_amplitude,
         x_ref_period |-> ref_airplane_movement.x_ref_period,
         x_ref_spacing |-> ref_airplane_movement.x_ref_spacing,
         y_ref_amplitude |-> ref_airplane_movement.y_ref_amplitude,
         y_ref_period |-> ref_airplane_movement.y_ref_period,
         y_ref_spacing |-> ref_airplane_movement.y_ref_spacing,
         z_ref_amplitude |-> ref_airplane_movement.z_ref_amplitude,
         z_ref_period |-> ref_airplane_movement.z_ref_period,
         z_ref_spacing |-> ref_airplane_movement.z_ref_spacing,
         base_airplane |-> ThisBaseAirplane(ref_airplane_movement.base_airplane,
                                            these_base_wings, it, path),
         wing_movements |-> these_wing_movements]

\* this_movement: the wake length goes in as num_chords or as num_cycles.
ThisMovement(ref_movement, static, length, chordwise, ar, it) ==
    LET ref_airplane_movements == ref_movement.airplane_movements
        ref_operating_point_movement == ref_movement.operating_point_movement
        these_airplane_movements ==
            [b \in 1..Len(ref_airplane_movements) |->
                ThisAirplaneMovement(ref_airplane_movements[b], chordwise, ar, it, <<b>>)]
    IN  IF static
        THEN [id |-> NewId(it, "Movement", << >>),
              airplane_movements |-> these_airplane_movements,
              operating_point_movement |-> ref_operating_point_movement,
              num_chords |-> length]
        ELSE [id |-> NewId(it, "Movement", << >>),
              airplane_movements |-> these_airplane_movements,
              operating_point_movement |-> ref_operating_point_movement,
              num_cycles |-> length]

\* this_problem, as built in the loop pass numbered `it` at the cursor.
ThisProblem(it) ==
    [id |-> NewId(it, "UnsteadyProblem", << >>),
     movement |-> ThisMovement(ref_problem.movement, is_static, wake_length,
                               num_chordwise_panels, panel_aspect_ratio, it),
     only_final_results |-> TRUE]

\* Building the variant divides by zero: no solver run is started.
UnsteadyVariantFails ==
    /\ pc = "loop"
    /\ ~Exhausted
    /\ VariantFails(panel_aspect_ratio)
    /\ iteration' = iteration + 1
    /\ pc' = "raised"
    /\ exc' = "ZeroDivisionError"
    /\ UNCHANGED <<args, lists, cursor, tables, solved, verdict, result, log,
                   this_problem>>

\* Variant: the failure is caught and the loops go on with the next combination.
UnsteadySolverFailsCaught ==
    /\ pc = "loop"
    /\ ~Exhausted
    /\ ~VariantFails(panel_aspect_ratio)
    /\ iteration' = iteration + 1
    /\ this_problem' = Val(ThisProblem(iteration + 1))
    /\ solved' = Append(solved, cursor)
    /\ pc' = "loop"
    /\ exc' = "SolverError"
    /\ wake_id' = NextCursor(wake_id, length_id, ar_id, chord_id)[1]
    /\ length_id' = NextCursor(wake_id, length_id, ar_id, chord_id)[2]
    /\ ar_id' = NextCursor(wake_id, length_id, ar_id, chord_id)[3]
    /\ chord_id' = NextCursor(wake_id, length_id, ar_id, chord_id)[4]
    /\ UNCHANGED <<args, lists, tables, verdict, result, log>>

\* this_solver.run raises: nothing catches it.
UnsteadySolverFails ==
    /\ pc = "loop"
    /\ ~Exhausted
    /\ ~VariantFails(panel_aspect_ratio)
    /\ iteration' = iteration + 1
    /\ this_problem' = Val(ThisProblem(iteration + 1))
    /\ solved' = Append(solved, cursor)
    /\ pc' = "raised"
    /\ exc' = "SolverError"
    /\ UNCHANGED <<args, lists, cursor, tables, verdict, result, log>>

\* The solver run succeeds: record, evaluate, then return or go on.
UnsteadyIterate ==
    /\ pc = "loop"
    /\ ~Exhausted
    /\ ~VariantFails(panel_aspect_ratio)
    /\ iteration' = iteration + 1
    /\ this_problem' = Val(ThisProblem(iteration + 1))
    /\ solved' = Append(solved, cursor)
    /\ \E report \in SolverReports(iteration + 1), this_iter_time \in IterTimes :
         LET these_force_coefficients == [b \in 1..num_airplanes |-> report[b][1]]
             these_moment_coefficients == [b \in 1..num_airplanes |-> report[b][2]]
             force == [force_coefficients EXCEPT ![WriteIndex(wake_id, length_id, ar_id, chord_id)] = these_force_coefficients]
             moment == [moment_coefficients EXCEPT ![WriteIndex(wake_id, length_id, ar_id, chord_id)] = these_moment_coefficients]
             v == Evaluate(wake_id, length_id, ar_id, chord_id,
                           these_force_coefficients, these_moment_coefficients,
                           force, moment)
             next == NextCursor(wake_id, length_id, ar_id, chord_id)
         IN  /\ force_coefficients' = force
             /\ moment_coefficients' = moment
             /\ iter_times' = [iter_times EXCEPT ![WriteIndex(wake_id, length_id, ar_id, chord_id)] = this_iter_time]
             /\ verdict' = <<v>>
             /\ IF AllPassed(v.wake_passed, v.length_passed, v.ar_passed, v.chord_passed)
                THEN /\ pc' = "returned"
                     /\ result' = ConvergedResult(v)
                     /\ log' = log \cup ConvergedLog(v)
                     /\ UNCHANGED cursor
                ELSE /\ pc' = "loop"
                     /\ wake_id' = next[1]
                     /\ length_id' = next[2]
                     /\ ar_id' = next[3]
                     /\ chord_id' = next[4]
                     /\ UNCHANGED <<result, log>>
    /\ UNCHANGED <<args, lists, exc>>

\* Variant: the two-element list of the steady function.
NotFoundResultPair == <<None, None>>

\* The list returned after the loops.
NotFoundResult == <<None, None, None, None>>

\* The loops ran out without a converged combination.
UnsteadyNotFound ==
    /\ pc = "loop"
    /\ Exhausted
    /\ pc' = "returned"
    /\ result' = NotFoundResult
    /\ log' = log \cup {"The analysis did not find a converged mesh."}
    /\ UNCHANGED <<args, lists, cursor, iteration, tables, solved, verdict, exc,
                   this_problem>>

Next ==
    \/ SteadyCheckArguments
    \/ UnsteadySetup
    \/ UnsteadyVariantFails
    \/ UnsteadySolverFails
    \/ UnsteadyIterate
    \/ UnsteadyNotFound

Spec == Init /\ [][Next]_vars

\* The call is one sequential thread: a statement that can run does run, and
\* every solver run is taken to terminate.
\* The calls followed to their end: one airplane, flapping motion, chordwise
\* bounds (3, 3) and two aspect-ratio bounds for the unsteady function.
FairInit ==
    /\ Init
    /\ num_airplanes = 1
    /\ (fn = "unsteady") =>
          /\ ~is_static
          /\ panel_aspect_ratio_bounds \in {<<2, 1>>, <<1, 0>>}
          /\ num_chordwise_panels_bounds = <<3, 3>>

FairSpec == FairInit /\ [][Next]_vars /\ WF_vars(Next)

(***************************************************************************)
(* Vocabulary of the properties.                                           *)
(***************************************************************************)
Unsteady == fn = "unsteady"
Returned == pc = "returned"
\* The call returned a converged setting (not the all-None list).
ConvergedReturn == Unsteady /\ Returned /\ Len(result) > 0 /\ result[1] # None
NotFoundReturn == Unsteady /\ Returned /\ Len(result) > 0 /\ result[1] = None
Evaluated == Len(verdict) = 1
NumCombinations ==
    Product(wake_list, wake_lengths_list, panel_aspect_ratios_list,
            num_chordwise_panels_list)

\* The bounds the argument checks of the steady function accept.
ValidBounds ==
    /\ num_chordwise_panels_bounds[1] <= num_chordwise_panels_bounds[2]
    /\ panel_aspect_ratio_bounds[1] >= panel_aspect_ratio_bounds[2]
    /\ panel_aspect_ratio_bounds[2] >= 1

\* The position of an index tuple in row-major order, counted from 0.
Rank(idx) ==
    ((idx[1] * Len(wake_lengths_list) + idx[2]) * Len(panel_aspect_ratios_list)
       + idx[3]) * Len(num_chordwise_panels_list) + idx[4]

\* The verdict of the combination idx, recomputed from the result tables.
VerdictAt(idx) ==
    Evaluate(idx[1], idx[2], idx[3], idx[4],
             force_coefficients[idx], moment_coefficients[idx],
             force_coefficients, moment_coefficients)

\* Every axis passes at the solved combination idx.
PassesAt(idx) ==
    LET v == VerdictAt(idx)
    IN  v.wake_passed /\ v.length_passed /\ v.ar_passed /\ v.chord_passed

\* The combination of the last solver run.
LastSolved == solved[Len(solved)]

\* C1: the unsteady sweep returns at the first combination, in row-major
\* order, at which every axis passes: the solver runs follow the row-major
\* order, no combination solved before the exit combination had every axis
\* pass, the exit combination has, and while the sweep goes on (or ends
\* without a converged setting) no solved combination had every axis pass,
\* so no solver run is started after a passing combination.
C1_ReturnsAtFirstPass ==
    (Unsteady /\ pc # "call") =>
        /\ \A i \in 1..Len(solved) : Rank(solved[i]) = i - 1
        /\ \A i \in 1..(Len(solved) - 1) : ~PassesAt(solved[i])
        /\ ConvergedReturn => (Len(solved) > 0 /\ PassesAt(LastSolved))
        /\ (pc = "loop" \/ NotFoundReturn) =>
               \A i \in 1..Len(solved) : ~PassesAt(solved[i])

\* C1 witness: a converged return after at least two failed combinations,
\* with combinations of the product left unvisited.
C1_Witness ==
    /\ ConvergedReturn
    /\ ValidBounds
    /\ Len(solved) >= 3
    /\ Len(solved) < NumCombinations

\* C2: when the unsteady call returns and no solved combination had every
\* axis pass, the solver was run exactly once for each combination of the
\* Cartesian product (product of the axis cardinalities runs, all distinct),
\* the result is the all-None list and no exception was raised.
C2_ExhaustedSweep ==
    (Unsteady /\ Returned /\ \A i \in 1..Len(solved) : ~PassesAt(solved[i])) =>
        /\ Len(solved) = NumCombinations
        /\ {solved[i] : i \in 1..Len(solved)} =
               Indices(wake_list, wake_lengths_list, panel_aspect_ratios_list,
                       num_chordwise_panels_list)
        /\ iteration = NumCombinations
        /\ result = <<None, None, None, None>>
        /\ exc = ""

\* C2 witness: an all-None return after a sweep of four or more combinations.
C2_Witness ==
    /\ NotFoundReturn
    /\ NumCombinations >= 4
    /\ Len(solved) = NumCombinations

\* The criterion as a float, and metric < criterion.
BelowCriterion(metric) == Lt(metric, Fin(convergence_criteria, 1))

\* C3: at every evaluated combination an axis passes iff its metric is
\* strictly below the criterion, or the axis has one candidate, or the value
\* is the saturation value (aspect ratio 1, free wake); wake length and
\* chordwise count have no saturation exemption; and the sweep returns a
\* converged setting at the combination iff all four axes pass.
C3_PassRule ==
    (Unsteady /\ Evaluated) =>
        LET v == verdict[1]
            wk == wake_list[v.at[1] + 1]
            ar == panel_aspect_ratios_list[v.at[3] + 1]
        IN  /\ v.wake_passed <=>
                 (BelowCriterion(v.max_wake_pc) \/ Len(wake_list) = 1 \/ wk = FALSE)
            /\ v.length_passed <=>
                 (BelowCriterion(v.max_length_pc) \/ Len(wake_lengths_list) = 1)
            /\ v.ar_passed <=>
                 (BelowCriterion(v.max_ar_pc) \/ Len(panel_aspect_ratios_list) = 1
                    \/ ar = 1)
            /\ v.chord_passed <=>
                 (BelowCriterion(v.max_chord_pc) \/ Len(num_chordwise_panels_list) = 1)
            /\ (v.at = LastSolved /\ pc \in {"loop", "returned"}) =>
                 (ConvergedReturn <=>
                    (v.wake_passed /\ v.length_passed /\ v.ar_passed /\ v.chord_passed))

\* C3 witness: a combination where the aspect ratio passes only by
\* saturation (two candidates, metric not below the criterion) and the
\* chordwise axis passes only by its metric, so the sweep returns.
C3_Witness ==
    /\ ConvergedReturn
    /\ Evaluated
    /\ verdict[1].ar_saturated /\ ~verdict[1].ar_converged /\ ~verdict[1].single_ar
    /\ verdict[1].chord_converged /\ ~verdict[1].single_chord

\* The value an axis reports for exit index id: the value one index coarser
\* unless the axis is exempt.
Reported(list, id, exempt) ==
    IF exempt THEN Val(list[id + 1]) ELSE Val(list[id])

Range(list) == {list[i] : i \in 1..Len(list)}

\* C5: a call of analyze_steady_convergence with valid bounds returns a
\* two-element list, either <<aspect ratio, chordwise count>> with both
\* values taken from their axis sequences or <<None, None>>; it does not
\* raise.
C5_SteadyReturns ==
    (fn = "steady" /\ ValidBounds /\ pc # "call") =>
        /\ pc # "raised"
        /\ Returned =>
             /\ Len(result) = 2
             /\ \/ result = <<None, None>>
                \/ /\ result[1] # None /\ result[2] # None
                   /\ result[1][1] \in Range(PanelAspectRatiosList(panel_aspect_ratio_bounds))
                   /\ result[2][1] \in Range(NumChordwisePanelsList(num_chordwise_panels_bounds))

\* C6: the steady call with chordwise bounds (3, 5), aspect-ratio bounds
\* (2, 2) and criterion 5.0 ends by returning <<2, 4>> after exactly three
\* solver runs.
C6_SteadyScenario ==
    (/\ fn = "steady"
     /\ num_chordwise_panels_bounds = <<3, 5>>
     /\ panel_aspect_ratio_bounds = <<2, 2>>
     /\ convergence_criteria = 5
     /\ pc # "call") =>
        /\ Returned
        /\ result = <<Val(2), Val(4)>>
        /\ Len(solved) = 3

\* C7: every return of the unsteady call is a four-element list that is
\* either all None or fully populated, with the wake, the wake length, the
\* aspect ratio and the chordwise count each drawn from its own axis
\* sequence; a list with some entries None and others set is never returned.
C7_ResultShape ==
    (Unsteady /\ Returned) =>
        /\ Len(result) = 4
        /\ \/ \A k \in 1..4 : result[k] = None
           \/ /\ \A k \in 1..4 : Len(result[k]) = 1
              /\ result[1][1] \in Range(wake_list)
              /\ result[2][1] \in Range(wake_lengths_list)
              /\ result[3][1] \in Range(panel_aspect_ratios_list)
              /\ result[4][1] \in Range(num_chordwise_panels_list)

\* C7 witness: an all-None return after a sweep that solved every
\* combination of a product of at least two.
C7_Witness ==
    /\ NotFoundReturn
    /\ ValidBounds
    /\ Len(solved) >= 2

\* C8: when the unsteady sweep exits at a combination whose four percent
\* changes are all below the criterion, every returned parameter is the
\* value one axis step coarser than the value at the exit combination.
C8_AllCoarser ==
    (/\ ConvergedReturn
     /\ Evaluated
     /\ verdict[1].wake_converged /\ verdict[1].length_converged
     /\ verdict[1].ar_converged /\ verdict[1].chord_converged) =>
        result = <<Val(wake_list[LastSolved[1]]),
                   Val(wake_lengths_list[LastSolved[2]]),
                   Val(panel_aspect_ratios_list[LastSolved[3]]),
                   Val(num_chordwise_panels_list[LastSolved[4]])>>

\* The axis bounds the specification calls invalid.
InvalidBounds ==
    \/ panel_aspect_ratio_bounds[1] < panel_aspect_ratio_bounds[2]
    \/ panel_aspect_ratio_bounds[2] < 1
    \/ num_chordwise_panels_bounds[1] > num_chordwise_panels_bounds[2]

\* C9: the unsteady call with invalid axis bounds starts no solver run and
\* returns no result (it fails with an error before the sweep).
C9_InvalidBoundsRejected ==
    (Unsteady /\ InvalidBounds /\ (prescribed_wake \/ free_wake)) =>
        /\ solved = << >>
        /\ pc # "returned"

CriticalNoWake == CriticalNoWakeMessage

\* C10: when neither the prescribed nor the free wake is requested, the
\* unsteady call emits the critical diagnostic, raises no exception and
\* starts no solver run.
C10_NoWakeRequested ==
    (Unsteady /\ ~prescribed_wake /\ ~free_wake /\ pc # "call") =>
        /\ CriticalNoWake \in log
        /\ pc # "raised" /\ exc = ""
        /\ solved = << >>
        /\ iteration = 0

\* C10 witness: the call with no wake type requested has returned, with the
\* critical diagnostic in the log.
C10_Witness ==
    /\ Unsteady /\ ~prescribed_wake /\ ~free_wake
    /\ ValidBounds
    /\ Returned
    /\ CriticalNoWake \in log

\* A list steps by d from each element to the next.
StepsBy(list, d) == \A i \in 1..(Len(list) - 1) : list[i + 1] = list[i] + d

\* C11: the unsteady sweep visits the combinations in the nesting order wake
\* (outermost, prescribed before free), wake length, aspect ratio, chordwise
\* count (innermost), each axis from coarse to fine: the i-th solver run is
\* the combination of row-major rank i - 1, so every combination visited so
\* far was solved exactly once and none was skipped, and the combination the
\* loops visit next is the one of the following rank.
C11_RowMajorOrder ==
    (Unsteady /\ pc # "call") =>
        /\ wake_list \in {<< >>, <<TRUE>>, <<FALSE>>, <<TRUE, FALSE>>}
        /\ StepsBy(wake_lengths_list, 1)
        /\ StepsBy(panel_aspect_ratios_list, -1)
        /\ StepsBy(num_chordwise_panels_list, 1)
        /\ \A i \in 1..Len(solved) : Rank(solved[i]) = i - 1
        /\ exc # "ZeroDivisionError" => iteration = Len(solved)
        /\ (pc = "loop" /\ ~Exhausted) => Rank(cursor) = Len(solved)
        /\ (pc = "loop" /\ Exhausted) => Len(solved) = NumCombinations

\* C11 witness: with both wake types requested and valid bounds, the sweep
\* has solved every prescribed-wake combination of a product with two wake
\* lengths, two aspect ratios and three chordwise counts, and at least two
\* free-wake ones.
C11_Witness ==
    /\ Unsteady /\ ValidBounds
    /\ wake_list = <<TRUE, FALSE>>
    /\ Len(wake_lengths_list) = 2 /\ Len(panel_aspect_ratios_list) = 2
    /\ Len(num_chordwise_panels_list) = 3
    /\ Len(solved) >= 14

\* The combinations whose solver run succeeded, i.e. whose results were written.
Written ==
    {solved[i] : i \in 1..(IF exc = "SolverError" THEN Len(solved) - 1 ELSE Len(solved))}

\* The three tables' entries at idx.
Entry(idx) == <<force_coefficients[idx], moment_coefficients[idx], iter_times[idx]>>
ZeroEntry == <<[b \in 1..num_airplanes |-> 0], [b \in 1..num_airplanes |-> 0], 0>>

\* C12: the result tables are append-only by index.  In every state of the
\* sweep the written entries are exactly those of the row-major prefix of
\* successfully solved combinations (every other entry still holds its
\* zeros), and in every step a written entry keeps its value and at most one
\* entry changes, the one at the combination being visited, which was not
\* written before.
C12_AppendOnly ==
    /\ [](pc \in {"loop", "returned", "raised"} /\ Unsteady =>
            \A idx \in DOMAIN iter_times :
                /\ (idx \in Written) <=> (Rank(idx) < Cardinality(Written))
                /\ (idx \in Written) <=> (iter_times[idx] # 0)
                /\ (idx \notin Written) => (Entry(idx) = ZeroEntry))
    /\ [][(pc = "loop") =>
            \A idx \in DOMAIN iter_times :
                /\ (idx \in Written) =>
                     /\ force_coefficients'[idx] = force_coefficients[idx]
                     /\ moment_coefficients'[idx] = moment_coefficients[idx]
                     /\ iter_times'[idx] = iter_times[idx]
                /\ (\/ force_coefficients'[idx] # force_coefficients[idx]
                    \/ moment_coefficients'[idx] # moment_coefficients[idx]
                    \/ iter_times'[idx] # iter_times[idx]) => (idx = cursor)]_vars

\* C12 witness: the free-wake part of a sweep is under way with all the
\* prescribed-wake entries written before it.
C12_Witness ==
    /\ Unsteady /\ ValidBounds
    /\ pc = "loop" /\ ~Exhausted
    /\ wake_id = 1
    /\ Cardinality(Written) >= 3
    /\ Cardinality(Written) < NumCombinations


\* C13: at every evaluated combination whose aspect ratio is 1 the
\* aspect-ratio axis is reported as passed, whatever its metric; and when
\* the other three axes pass there too, the sweep returns at that
\* combination with aspect ratio 1 in the result.
C13_SaturatedAspectRatio ==
    (/\ Unsteady /\ Evaluated
     /\ panel_aspect_ratios_list[verdict[1].at[3] + 1] = 1) =>
        LET v == verdict[1]
        IN  /\ v.ar_passed
            /\ (/\ v.at = LastSolved /\ pc \in {"loop", "returned"}
                /\ v.wake_passed /\ v.length_passed /\ v.chord_passed) =>
                   /\ ConvergedReturn
                   /\ iteration = Rank(v.at) + 1
                   /\ result[3] = Val(1)

\* C13 witness: the sweep has returned at a combination with aspect ratio 1,
\* the second of two candidates, whose aspect-ratio metric is not below the
\* criterion.
C13_Witness ==
    /\ ConvergedReturn /\ ValidBounds
    /\ Evaluated
    /\ panel_aspect_ratio_bounds = <<2, 1>>
    /\ LastSolved[3] = 1
    /\ ~BelowCriterion(verdict[1].max_ar_pc)
    /\ verdict[1].max_ar_pc.k = "fin"
    /\ result[3] = Val(1)


\* The axis sequence has one candidate.
Single(list) == Len(list) = 1

\* C14: at every evaluated combination an axis with a single candidate
\* passes, whatever its metric, and a converged return reports that sole
\* candidate for it; with only the free wake requested the wake axis is the
\* single value free, its metric is never computed against a predecessor
\* (it stays inf), it passes, and a converged return reports the free wake
\* and logs that wake type convergence was not checked.
C14_SingleValuedAxis ==
    (Unsteady /\ Evaluated) =>
        LET v == verdict[1]
        IN  /\ Single(wake_list) => v.wake_passed
            /\ Single(wake_lengths_list) => v.length_passed
            /\ Single(panel_aspect_ratios_list) => v.ar_passed
            /\ Single(num_chordwise_panels_list) => v.chord_passed
            /\ ConvergedReturn =>
                 /\ Single(wake_list) => result[1] = Val(wake_list[1])
                 /\ Single(wake_lengths_list) => result[2] = Val(wake_lengths_list[1])
                 /\ Single(panel_aspect_ratios_list) =>
                        result[3] = Val(panel_aspect_ratios_list[1])
                 /\ Single(num_chordwise_panels_list) =>
                        result[4] = Val(num_chordwise_panels_list[1])
            /\ (free_wake /\ ~prescribed_wake) =>
                 /\ wake_list = <<FALSE>>
                 /\ v.max_wake_pc = Inf
                 /\ v.wake_passed
                 /\ ConvergedReturn =>
                      /\ result[1] = Val(FALSE)
                      /\ "WARNING: Wake type convergence not checked." \in log

\* C14 witness: a converged return of a free-wake-only sweep whose chordwise
\* axis has the single candidate 3 (metric inf) while the aspect-ratio axis
\* has two candidates.
C14_Witness ==
    /\ ConvergedReturn /\ ValidBounds
    /\ free_wake /\ ~prescribed_wake
    /\ Evaluated
    /\ num_chordwise_panels_list = <<3>>
    /\ verdict[1].max_chord_pc = Inf
    /\ Len(panel_aspect_ratios_list) = 2
    /\ result[1] = Val(FALSE) /\ result[4] = Val(3)


\* The solver reported the same coefficients in every run so far.
IdenticalReports ==
    \A i, j \in 1..Len(solved) :
        /\ force_coefficients[solved[i]] = force_coefficients[solved[j]]
        /\ moment_coefficients[solved[i]] = moment_coefficients[solved[j]]

\* Every reported force and moment magnitude is nonzero.
NonzeroReports ==
    \A i \in 1..Len(solved) : \A b \in 1..num_airplanes :
        /\ force_coefficients[solved[i]][b] # 0
        /\ moment_coefficients[solved[i]][b] # 0

\* Every axis has at least two candidates, so that a combination at which
\* every axis has a predecessor exists.
EveryAxisVaried ==
    /\ Len(wake_list) >= 2 /\ Len(wake_lengths_list) >= 2
    /\ Len(panel_aspect_ratios_list) >= 2 /\ Len(num_chordwise_panels_list) >= 2

IsZero(metric) == metric.k = "fin" /\ metric.n = 0

\* C15 as stated: when the call has ended and the solver reported the same
\* coefficients in every run, the sweep returned a converged setting at the
\* combination <<1, 1, 1, 1>>, the first at which every axis has a
\* predecessor, and every axis metric there is 0.
C15_IdenticalCoefficients ==
    (/\ Unsteady /\ Returned /\ ValidBounds /\ EveryAxisVaried
     /\ Evaluated /\ IdenticalReports) =>
        /\ ConvergedReturn
        /\ LastSolved = <<1, 1, 1, 1>>
        /\ IsZero(verdict[1].max_wake_pc) /\ IsZero(verdict[1].max_length_pc)
        /\ IsZero(verdict[1].max_ar_pc) /\ IsZero(verdict[1].max_chord_pc)

\* The index 1 on an axis with a predecessor to compare with, 0 on an axis
\* with a single candidate.
FirstWithPredecessor(list) == IF Len(list) >= 2 THEN 1 ELSE 0

\* C15 amended: when the call has ended and the solver reported the same
\* nonzero coefficients in every run, the sweep returned a converged setting
\* at the first combination at which every axis with two or more candidates
\* has a predecessor, and the metric of each such axis is 0 there (that of
\* a single-valued axis is inf).
C15_IdenticalNonzeroCoefficients ==
    (/\ Unsteady /\ Returned /\ ValidBounds
     /\ Evaluated /\ IdenticalReports /\ NonzeroReports) =>
        LET v == verdict[1]
        IN  /\ ConvergedReturn
            /\ LastSolved = <<FirstWithPredecessor(wake_list),
                              FirstWithPredecessor(wake_lengths_list),
                              FirstWithPredecessor(panel_aspect_ratios_list),
                              FirstWithPredecessor(num_chordwise_panels_list)>>
            /\ v.at = LastSolved
            /\ IF Single(wake_list) THEN v.max_wake_pc = Inf ELSE IsZero(v.max_wake_pc)
            /\ IF Single(wake_lengths_list)
               THEN v.max_length_pc = Inf ELSE IsZero(v.max_length_pc)
            /\ IF Single(panel_aspect_ratios_list)
               THEN v.max_ar_pc = Inf ELSE IsZero(v.max_ar_pc)
            /\ IF Single(num_chordwise_panels_list)
               THEN v.max_chord_pc = Inf ELSE IsZero(v.max_chord_pc)

\* C15 witness: identical nonzero reports on four varied axes; the sweep has
\* returned at <<1, 1, 1, 1>> after 23 solver runs.
C15_Witness ==
    /\ Unsteady /\ Returned /\ ValidBounds /\ EveryAxisVaried
    /\ Evaluated /\ IdenticalReports /\ NonzeroReports
    /\ ConvergedReturn
    /\ LastSolved = <<1, 1, 1, 1>>
    /\ Len(solved) = 23


\* Some airplane has a zero force or moment magnitude in the table entry idx.
ZeroMagnitudeAt(idx) ==
    \E b \in 1..num_airplanes :
        force_coefficients[idx][b] = 0 \/ moment_coefficients[idx][b] = 0

\* The metric is inf or nan and the axis did not converge on it.
NotPassingOnMetric(metric, converged) == metric.k # "fin" /\ ~converged

\* C16: at every evaluated combination, an axis whose predecessor entry
\* holds a zero force or moment magnitude for some airplane has a non-finite
\* metric and has not converged on it (it can pass only by being
\* single-valued or saturated).
C16_ZeroPredecessor ==
    (Unsteady /\ Evaluated /\ verdict[1].at = LastSolved /\ pc \in {"loop", "returned"}) =>
        LET v == verdict[1]
            w == v.at[1]
            l == v.at[2]
            a == v.at[3]
            c == v.at[4]
        IN  /\ (w > 0 /\ ZeroMagnitudeAt(<<w - 1, l, a, c>>)) =>
                 /\ NotPassingOnMetric(v.max_wake_pc, v.wake_converged)
                 /\ v.wake_passed => (v.single_wake \/ v.wake_saturated)
            /\ (l > 0 /\ ZeroMagnitudeAt(<<w, l - 1, a, c>>)) =>
                 /\ NotPassingOnMetric(v.max_length_pc, v.length_converged)
                 /\ v.length_passed => v.single_length
            /\ (a > 0 /\ ZeroMagnitudeAt(<<w, l, a - 1, c>>)) =>
                 /\ NotPassingOnMetric(v.max_ar_pc, v.ar_converged)
                 /\ v.ar_passed => (v.single_ar \/ v.ar_saturated)
            /\ (c > 0 /\ ZeroMagnitudeAt(<<w, l, a, c - 1>>)) =>
                 /\ NotPassingOnMetric(v.max_chord_pc, v.chord_converged)
                 /\ v.chord_passed => v.single_chord


\* The wake-length bounds in force for this call.
WakeLengthBounds == IF is_static THEN num_chords_bounds ELSE num_cycles_bounds

\* The list is non-empty, runs from `first` to `last` and moves by d per step.
RunsFromTo(list, first, last, d) ==
    /\ Len(list) >= 1
    /\ list[1] = first
    /\ list[Len(list)] = last
    /\ StepsBy(list, d)
    /\ \A i \in 1..(Len(list) - 1) : IF d > 0 THEN list[i] < list[i + 1]
                                     ELSE list[i] > list[i + 1]

\* C17: for valid bounds, the aspect-ratio sequence built by the unsteady
\* call is non-empty and strictly decreasing by 1 from the coarse to the
\* fine bound, and the chordwise and wake-length sequences are non-empty
\* and strictly increasing by 1 from the coarse to the fine bound.
C17_AxisSequences ==
    (/\ Unsteady /\ pc # "call" /\ ValidBounds
     /\ WakeLengthBounds[1] <= WakeLengthBounds[2]) =>
        /\ RunsFromTo(panel_aspect_ratios_list,
                      panel_aspect_ratio_bounds[1], panel_aspect_ratio_bounds[2], -1)
        /\ RunsFromTo(num_chordwise_panels_list,
                      num_chordwise_panels_bounds[1], num_chordwise_panels_bounds[2], 1)
        /\ RunsFromTo(wake_lengths_list, WakeLengthBounds[1], WakeLengthBounds[2], 1)

\* C17 witness: the sequences <<3, 2>>, <<3, 4, 5>> and <<1, 2>> have been
\* built from the bounds (3, 2), (3, 5) and (1, 2).
C17_Witness ==
    /\ Unsteady /\ pc = "loop" /\ ValidBounds
    /\ panel_aspect_ratio_bounds = <<3, 2>> /\ panel_aspect_ratios_list = <<3, 2>>
    /\ num_chordwise_panels_bounds = <<3, 5>> /\ num_chordwise_panels_list = <<3, 4, 5>>
    /\ ~is_static /\ num_cycles_bounds = <<1, 2>> /\ wake_lengths_list = <<1, 2>>


\* A variant has been built and handed to the solver.
Built == Unsteady /\ this_problem # None

\* The paths <<b, w>> of the wings of the reference.
WingPaths ==
    UNION {{<<b, w>> :
               w \in 1..Len(ref_problem.movement.airplane_movements[b].wing_movements)} :
           b \in 1..num_airplanes}

RefWingAt(p) == ref_problem.movement.airplane_movements[p[1]].wing_movements[p[2]].base_wing
ThisWingMovementAt(p) ==
    this_problem[1].movement.airplane_movements[p[1]].wing_movements[p[2]]
ThisWingAt(p) == ThisWingMovementAt(p).base_wing

\* The candidates of the combination the variant was built for.
BuiltChordwise == num_chordwise_panels_list[LastSolved[4] + 1]
BuiltAspectRatio == panel_aspect_ratios_list[LastSolved[3] + 1]

\* count is the integer nearest to n / d (d > 0), the even one on a tie.
NearestTiesToEven(count, n, d) ==
    /\ 2 * Abs(count * d - n) <= d
    /\ (2 * Abs(count * d - n) = d) => (count % 2 = 0)

\* C18: in every variant handed to the solver, the last cross section of
\* every wing has 0 spanwise panels, and every other cross section has the
\* integer nearest (ties to even, as round does) to
\* span * chordwise / (mean chord * aspect ratio), where span is the y_le
\* distance to the next reference cross section, mean chord the mean of the
\* two reference chords, and chordwise and aspect ratio are the current
\* candidates.
C18_SpanwisePanels ==
    Built =>
        \A p \in WingPaths :
            LET ref == RefWingAt(p).wing_cross_sections
                this == ThisWingAt(p).wing_cross_sections
            IN  /\ Len(this) = Len(ref)
                /\ this[Len(this)].num_spanwise_panels = 0
                /\ \A s \in 1..(Len(this) - 1) :
                     NearestTiesToEven(
                         this[s].num_spanwise_panels,
                         2 * (ref[s + 1].y_le - ref[s].y_le) * BuiltChordwise,
                         (ref[s].chord + ref[s + 1].chord) * BuiltAspectRatio)
                /\ \A s \in 1..Len(this) :
                     ThisWingMovementAt(p).wing_cross_section_movements[s]
                         .base_wing_cross_section = this[s]

\* C18 witness: a variant built for 5 chordwise panels at aspect ratio 1:
\* the root section of the first wing (span 3, chords 2 and 2) gets
\* round(7.5) = 8 panels, the next (span 2, chords 2 and 1) round(6.67) = 7,
\* and the tip section 0.
C18_Witness ==
    /\ Built /\ ValidBounds
    /\ BuiltChordwise = 5 /\ BuiltAspectRatio = 1
    /\ ThisWingAt(<<1, 1>>).wing_cross_sections[1].num_spanwise_panels = 8
    /\ ThisWingAt(<<1, 1>>).wing_cross_sections[2].num_spanwise_panels = 7
    /\ ThisWingAt(<<1, 1>>).wing_cross_sections[3].num_spanwise_panels = 0


\* The identities of the mutable objects reachable from a wing cross section
\* movement, a wing movement, an airplane movement and an unsteady problem.
ObjectsOfSection(m) ==
    {m.id, m.base_wing_cross_section.id, m.base_wing_cross_section.airfoil.id,
     m.base_wing_cross_section.airfoil.coordinates.id}
ObjectsOfWing(m) ==
    {m.id, m.base_wing.id} \cup
        UNION {ObjectsOfSection(m.wing_cross_section_movements[s]) :
                  s \in 1..Len(m.wing_cross_section_movements)}
ObjectsOfAirplane(m) ==
    {m.id, m.base_airplane.id} \cup
        UNION {ObjectsOfWing(m.wing_movements[w]) : w \in 1..Len(m.wing_movements)}
ObjectsOf(problem) ==
    {problem.id, problem.movement.id, problem.movement.operating_point_movement.id} \cup
        UNION {ObjectsOfAirplane(problem.movement.airplane_movements[b]) :
                  b \in 1..Len(problem.movement.airplane_movements)}

\* C19: the variant handed to the solver shares no mutable object (airplane,
\* wing, cross section, airfoil, coordinate data, movement record, operating
\* point movement) with the reference problem, and the variant of one
\* combination shares none with the variant of the combination before it.
C19_NoSharedObjects ==
    /\ [](Built => ObjectsOf(this_problem[1]) \cap ObjectsOf(ref_problem) = {})
    /\ [][(Built /\ this_problem' # this_problem) =>
             ObjectsOf(this_problem[1]) \cap ObjectsOf(this_problem'[1]) = {}]_vars


\* The records this and ref have the same fields, with equal values in all
\* of them but those named in `except`.  (Two Python objects are never the
\* same object here, so the identity is always excepted.)
SameBut(this, ref, except) ==
    /\ DOMAIN this = DOMAIN ref
    /\ \A f \in (DOMAIN ref \ (except \cup {"id"})) : this[f] = ref[f]

\* A cross section and its movement agree with the reference in every field
\* but the spanwise panel count.
SectionCopied(this, ref) ==
    /\ SameBut(this, ref, {"base_wing_cross_section"})
    /\ SameBut(this.base_wing_cross_section, ref.base_wing_cross_section,
               {"num_spanwise_panels", "airfoil"})
    /\ SameBut(this.base_wing_cross_section.airfoil,
               ref.base_wing_cross_section.airfoil, {})

\* A wing and its movement agree with the reference in every field but the
\* chordwise panel count, which is the candidate `chordwise`.
WingCopied(this, ref, chordwise) ==
    /\ SameBut(this, ref, {"base_wing", "wing_cross_section_movements"})
    /\ SameBut(this.base_wing, ref.base_wing,
               {"num_chordwise_panels", "wing_cross_sections"})
    /\ this.base_wing.num_chordwise_panels = chordwise
    /\ Len(this.wing_cross_section_movements) = Len(ref.wing_cross_section_movements)
    /\ Len(this.base_wing.wing_cross_sections) = Len(ref.base_wing.wing_cross_sections)
    /\ \A s \in 1..Len(ref.wing_cross_section_movements) :
         /\ SectionCopied(this.wing_cross_section_movements[s],
                          ref.wing_cross_section_movements[s])
         /\ SameBut(this.base_wing.wing_cross_sections[s],
                    ref.base_wing.wing_cross_sections[s],
                    {"num_spanwise_panels", "airfoil"})

\* An airplane and its movement agree with the reference in every field but
\* the reference area, chord and span, which are None.
AirplaneCopied(this, ref, chordwise) ==
    /\ SameBut(this, ref, {"base_airplane", "wing_movements"})
    /\ SameBut(this.base_airplane, ref.base_airplane,
               {"s_ref", "c_ref", "b_ref", "wings"})
    /\ this.base_airplane.s_ref = None
    /\ this.base_airplane.c_ref = None
    /\ this.base_airplane.b_ref = None
    /\ Len(this.wing_movements) = Len(ref.wing_movements)
    /\ Len(this.base_airplane.wings) = Len(ref.base_airplane.wings)
    /\ \A w \in 1..Len(ref.wing_movements) :
         /\ WingCopied(this.wing_movements[w], ref.wing_movements[w], chordwise)
         /\ this.base_airplane.wings[w] = this.wing_movements[w].base_wing

C21_SolverFailurePropagates ==
    /\ []((Unsteady /\ exc = "SolverError") =>
            /\ pc = "raised"
            /\ result = << >>
            /\ Len(solved) >= 1
            /\ \A i \in 1..(Len(solved) - 1) : solved[i] # LastSolved
            /\ iter_times[LastSolved] = 0
            /\ iteration = Len(solved)
            /\ Len(solved) = Rank(LastSolved) + 1)
    /\ [][pc # "raised"]_vars

\* C21 witness: the third solver run of a sweep of more than three
\* combinations has failed.
C21_Witness ==
    /\ Unsteady /\ ValidBounds
    /\ exc = "SolverError" /\ pc = "raised"
    /\ Len(solved) = 3
    /\ NumCombinations > 3


\* The call has ended, by a return or by an exception.
Ended == pc \in {"returned", "raised"}

\* C22: every call ends (given that every statement, a solver run included,
\* terminates); it never runs more loop passes than there are combinations;
\* when it has ended it has produced exactly one outcome, a returned list
\* (a converged setting or the all-None list) and no exception, or an
\* exception and no returned list; and no step follows the end, so it
\* never returns twice.
C22_Terminates ==
    /\ <>Ended
    /\ [](Unsteady => iteration <= NumCombinations)
    /\ [](pc = "returned" => (exc = "" /\ (ConvergedReturn \/ NotFoundReturn)))
    /\ [](pc = "raised" => (exc # "" /\ result = << >>))
    /\ [](~Ended => (exc = "" /\ result = << >>))
    /\ [][~Ended]_vars

\* C22 witness: a sweep of 8 combinations has ended after solving all of
\* them, with the all-None list.
C22_Witness ==
    /\ Unsteady /\ ValidBounds
    /\ NotFoundReturn
    /\ NumCombinations = 8
    /\ iteration = NumCombinations


\* The percent changes of every airplane's force and moment magnitude at the
\* solved combination idx against the table entry prev.
Changes(idx, prev) ==
    {PercentChange(force_coefficients[idx][b], force_coefficients[prev][b]) :
        b \in 1..num_airplanes}
    \cup {PercentChange(moment_coefficients[idx][b], moment_coefficients[prev][b]) :
        b \in 1..num_airplanes}

\* m is the maximum of the floats in S: a member that none exceeds, and nan
\* when a member is nan (the maximum of values that include an undefined
\* one is undefined).
IsMaximumOf(m, S) ==
    IF \E x \in S : x.k = "nan"
    THEN m.k = "nan"
    ELSE /\ \E x \in S : ~Lt(m, x) /\ ~Lt(x, m)
         /\ \A x \in S : ~Lt(m, x)

\* C23: at every evaluated combination, the metric of each axis whose index
\* is greater than 0 is the maximum, over all airplanes and over force and
\* moment magnitude, of 100 * |current - predecessor| / predecessor, the
\* predecessor being the table entry one index lower along that axis.
C23_MetricIsMaximum ==
    (Unsteady /\ Evaluated /\ verdict[1].at = LastSolved /\ pc \in {"loop", "returned"}) =>
        LET v == verdict[1]
            w == v.at[1]
            l == v.at[2]
            a == v.at[3]
            c == v.at[4]
        IN  /\ w > 0 => IsMaximumOf(v.max_wake_pc, Changes(v.at, <<w - 1, l, a, c>>))
            /\ l > 0 => IsMaximumOf(v.max_length_pc, Changes(v.at, <<w, l - 1, a, c>>))
            /\ a > 0 => IsMaximumOf(v.max_ar_pc, Changes(v.at, <<w, l, a - 1, c>>))
            /\ c > 0 => IsMaximumOf(v.max_chord_pc, Changes(v.at, <<w, l, a, c - 1>>))


\* Tolerances to compare an unbounded metric with.
Tolerances == {1, 5, 100, 1000000}

\* The metric of an axis at its first value: inf, below no tolerance.
Unbounded(metric) ==
    /\ metric = Inf
    /\ \A t \in Tolerances : ~Converged(metric, t)

\* C24: at every evaluated combination an axis whose index is 0 has the
\* metric inf, which is below no tolerance, so the axis has not converged;
\* and a converged setting is returned only at a combination where each
\* axis has index >= 1, or one candidate, or its saturation value.
C24_FirstValueUnbounded ==
    (Unsteady /\ Evaluated) =>
        LET v == verdict[1]
        IN  /\ v.at[1] = 0 => (Unbounded(v.max_wake_pc) /\ ~v.wake_converged)
            /\ v.at[2] = 0 => (Unbounded(v.max_length_pc) /\ ~v.length_converged)
            /\ v.at[3] = 0 => (Unbounded(v.max_ar_pc) /\ ~v.ar_converged)
            /\ v.at[4] = 0 => (Unbounded(v.max_chord_pc) /\ ~v.chord_converged)
            /\ ConvergedReturn =>
                 /\ v.at = LastSolved
                 /\ v.at[1] >= 1 \/ Single(wake_list) \/ wake_list[v.at[1] + 1] = FALSE
                 /\ v.at[2] >= 1 \/ Single(wake_lengths_list)
                 /\ v.at[3] >= 1 \/ Single(panel_aspect_ratios_list)
                      \/ panel_aspect_ratios_list[v.at[3] + 1] = 1
                 /\ v.at[4] >= 1 \/ Single(num_chordwise_panels_list)

\* C24 witness: a converged return at wake index 1 and chordwise index 1 of
\* a sweep over both wakes, whose aspect-ratio axis is varied and exits at
\* index 1, after combinations at index 0 were evaluated and passed over.
C24_Witness ==
    /\ ConvergedReturn /\ ValidBounds
    /\ Evaluated
    /\ wake_list = <<TRUE, FALSE>>
    /\ LastSolved[1] = 1 /\ LastSolved[3] = 1 /\ LastSolved[4] = 1
    /\ ~Single(wake_lengths_list)
    /\ verdict[1].chord_converged


\* The number of combinations of one wake type.
PerWake ==
    Len(wake_lengths_list) * Len(panel_aspect_ratios_list)
        * Len(num_chordwise_panels_list)

IndexOf(list, reported) ==
    IF \E i \in 1..Len(list) : Val(list[i]) = reported
    THEN (CHOOSE i \in 1..Len(list) : Val(list[i]) = reported) - 1
    ELSE -1

\* The index tuple of the returned setting.
ReportedIndex ==
    <<IndexOf(wake_list, result[1]), IndexOf(wake_lengths_list, result[2]),
      IndexOf(panel_aspect_ratios_list, result[3]),
      IndexOf(num_chordwise_panels_list, result[4])>>

\* C26: on every converged return each reported value sits at an index
\* between 0 and the exit combination's index on its axis, and the
\* combination of the four reported indices was solved before the return,
\* its table entry and its iteration time being written.
C26_ReportedWasSolved ==
    ConvergedReturn =>
        /\ \A k \in 1..4 : 0 <= ReportedIndex[k] /\ ReportedIndex[k] <= LastSolved[k]
        /\ \E i \in 1..Len(solved) : solved[i] = ReportedIndex
        /\ ReportedIndex \in Written
        /\ iter_times[ReportedIndex] # 0

\* C26 witness: a converged return that reports a combination solved before
\* the exit combination: one chordwise step and one aspect-ratio step
\* coarser.
C26_Witness ==
    /\ ConvergedReturn /\ ValidBounds
    /\ ReportedIndex[4] = LastSolved[4] - 1
    /\ ReportedIndex[3] = LastSolved[3] - 1
    /\ ReportedIndex # LastSolved
    /\ Rank(ReportedIndex) + 4 <= Rank(LastSolved)


\* Wake length and chordwise count have one candidate each, the aspect
\* ratio runs down to 1 and the free wake is requested.
EndsSaturated ==
    /\ Unsteady /\ pc # "call"
    /\ Single(wake_lengths_list) /\ Single(num_chordwise_panels_list)
    /\ panel_aspect_ratio_bounds[2] = 1 /\ panel_aspect_ratio_bounds[1] >= 1
    /\ free_wake

\* C27: in such a call the loops never run out and the all-None list is
\* never returned; the only exception that can leave the call is a solver
\* failure; and every return is a fully populated converged setting.
C27_AlwaysConverges ==
    EndsSaturated =>
        /\ (pc = "loop") => ~Exhausted
        /\ ~NotFoundReturn
        /\ exc \in {"", "SolverError"}
        /\ Returned =>
             /\ ConvergedReturn
             /\ \A k \in 1..4 : result[k] # None
             /\ LastSolved[1] = Len(wake_list) - 1

\* C27 witness: such a call over both wakes and the aspect ratios 2 and 1
\* returns a converged setting at its last combination, where the
\* aspect-ratio metric is not below the criterion.
C27_Witness ==
    /\ EndsSaturated
    /\ prescribed_wake
    /\ panel_aspect_ratio_bounds = <<2, 1>>
    /\ ConvergedReturn
    /\ Len(solved) = NumCombinations
    /\ Evaluated /\ ~verdict[1].ar_converged


\* The axis passed without its metric being below the criterion: it was
\* exempted from the tolerance check, as single-valued or as saturated.
Exempted(converged, single, saturated) == (single \/ saturated) /\ ~converged

\* C28: on a converged return the log carries, for every axis that passed
\* without its metric being below the criterion (single-valued or at its
\* saturation value), the warning that its convergence was not checked, and
\* reports a semi-converged mesh, not a converged one, when there is such
\* an axis.
C28_ExemptionsLogged ==
    (ConvergedReturn /\ Evaluated /\ ValidBounds) =>
        LET v == verdict[1]
            wake_exempted == Exempted(v.wake_converged, v.single_wake, v.wake_saturated)
            length_exempted == Exempted(v.length_converged, v.single_length, FALSE)
            ar_exempted == Exempted(v.ar_converged, v.single_ar, v.ar_saturated)
            chord_exempted == Exempted(v.chord_converged, v.single_chord, FALSE)
        IN  /\ wake_exempted => "WARNING: Wake type convergence not checked." \in log
            /\ length_exempted => "WARNING: Wake length convergence not checked." \in log
            /\ ar_exempted => "WARNING: Panel aspect ratio convergence not checked." \in log
            /\ chord_exempted =>
                 "WARNING: Number of chordwise panels convergence not checked." \in log
            /\ (wake_exempted \/ length_exempted \/ ar_exempted \/ chord_exempted) =>
                 /\ "The analysis found a semi-converged mesh:" \in log
                 /\ "The analysis found a converged mesh:" \notin log


\* The table entry idx was written by a solver run before the last one.
WrittenEarlier(idx) ==
    /\ \E i \in 1..(Len(solved) - 1) : solved[i] = idx
    /\ iter_times[idx] # 0

\* C29: when a combination is evaluated, the entry one index lower along
\* each axis whose index is greater than 0 (the entries the evaluation
\* reads) was written by an earlier solver run of the sweep; none of them
\* still holds its initial zeros.
C29_ReadsWrittenEntries ==
    (Unsteady /\ Evaluated /\ verdict[1].at = LastSolved /\ pc \in {"loop", "returned"}) =>
        LET w == LastSolved[1]
            l == LastSolved[2]
            a == LastSolved[3]
            c == LastSolved[4]
        IN  /\ w > 0 => WrittenEarlier(<<w - 1, l, a, c>>)
            /\ l > 0 => WrittenEarlier(<<w, l - 1, a, c>>)
            /\ a > 0 => WrittenEarlier(<<w, l, a - 1, c>>)
            /\ c > 0 => WrittenEarlier(<<w, l, a, c - 1>>)

\* C29 witness: the combination <<1, 1, 1, 2>>, which has a predecessor
\* along every axis, has been evaluated and the sweep goes on.
C29_Witness ==
    /\ Unsteady /\ ValidBounds
    /\ Evaluated /\ verdict[1].at = <<1, 1, 1, 2>>
    /\ LastSolved = <<1, 1, 1, 2>>
    /\ pc = "loop"


\* C30: in every evaluated combination of analyze_unsteady_convergence,
\* wake_converged implies wake_saturated; the wake metric differs from
\* infinity only when the current wake is free; wake_passed equals
\* (single_wake or the wake is free); and so the wake metric has no
\* effect on whether the combination passes.
C30_WakeMetricIrrelevant ==
    (Unsteady /\ Evaluated) =>
        LET v == verdict[1]
            this_wake == wake_list[v.at[1] + 1]
        IN  /\ v.wake_converged => v.wake_saturated
            /\ (v.max_wake_pc # Inf) => (this_wake = FALSE)
            /\ v.wake_passed <=> (v.single_wake \/ this_wake = FALSE)
            /\ v.wake_passed <=> Passed(FALSE, v.single_wake, v.wake_saturated)

\* C30 witness: with both wake types requested, a free-wake combination
\* was evaluated and its wake metric is below the criterion.
C30_Witness ==
    /\ Unsteady /\ ValidBounds
    /\ wake_list = <<TRUE, FALSE>>
    /\ Evaluated /\ verdict[1].at[1] = 1
    /\ verdict[1].wake_converged /\ verdict[1].wake_saturated
    /\ BelowCriterion(verdict[1].max_wake_pc)

====
